---------------------------- MODULE Spec2Model ----------------------------
(***************************************************************************)
(* A model of daily_paper_bot.py: the keyword classifier classify_paper,   *)
(* the grouping loop and the Markdown renderer of main, and the final      *)
(* write of README.md.                                                     *)
(*                                                                         *)
(* Python strings are TLA+ strings; characters are read with SubSeq(s,i,i).*)
(* String literals are ASCII here, so the emoji that prefixes each category*)
(* name and some headings ("<emoji> Hardware & Materials") is left out of  *)
(* the literal.  The prefixes of the keys of CATEGORIES (lines 13, 18, 23),*)
(* of the fallback name (lines 49, 70) and of display_order (line 93) are  *)
(* byte-for-byte the same in the source, so leaving them out changes no    *)
(* comparison between these names.                                         *)
(***************************************************************************)
EXTENDS Integers, Sequences, FiniteSets, TLC

VARIABLES
  pc,            \* position of main: "start", "group", "render", "paper",
                 \*   "write", "done", "aborted"; "off" outside main;
                 \*   "authors", "authors_done" around lines 106-109 alone
  results,       \* main: the list returned by the search (line 64)
  paper_groups,  \* main: category name -> list of papers (lines 69-74)
  idx,           \* main: position of the grouping loop in results (line 72)
  md_content,    \* main: the pieces appended to md_content so far, in order
  cat_i,         \* main: position of the loop over display_order (line 95)
  p_i,           \* main: position of the loop over papers (line 103)
  authors,       \* main: the author names of the paper being rendered (105)
  author_str,    \* main: the author summary of that paper (lines 106-109)
  README,        \* the content of README.md on disk
  search,        \* the call of line 64: "pending", "returned" or "raised"
  cpc,           \* position of classify_paper: "call", "scored", "max",
                 \*   "returned"; "off" outside a stand-alone call
  title,         \* classify_paper: argument
  summary,       \* classify_paper: argument
  text,          \* classify_paper: local (line 36)
  scores,        \* classify_paper: local (lines 37-42)
  best_cat,      \* classify_paper: local (line 45)
  ret            \* classify_paper: returned value (lines 48-50)

mainVars ==
  <<pc, results, paper_groups, idx, md_content, cat_i, p_i, README, search>>
authorVars == <<authors, author_str>>
classifyVars == <<cpc, title, summary, text, scores, best_cat, ret>>
vars == <<mainVars, authorVars, classifyVars>>

---------------------------------------------------------------------------
(* Bounds of the model *)

\* longest result list the search returns in the model
MaxPapers == 2
\* most authors a paper has in the model
MaxAuthors == 4
\* most fragments a title is made of when classify_paper is called alone
MaxChunks == 2

---------------------------------------------------------------------------
(* Configuration, lines 5-28 *)

MAX_RESULTS == 30

CATEGORIES ==
  <<
    [name |-> "Hardware & Materials",
     keywords |-> <<
            "memristor", "rram", "pcm", "device", "material",
            "circuit", "cmos", "transistor", "fpga", "accelerator",
            "chip", "integrated", "hardware", "synaptic device",
            "crossbar", "conductance" >>],
    [name |-> "Algorithms & Theory",
     keywords |-> <<
            "plasticity", "stdp", "learning rule", "backpropagation",
            "dynamics", "bifurcation", "chaos", "neuron model", "snn",
            "spiking", "theory", "optimization", "encoding",
            "decoding", "information", "liquid state" >>],
    [name |-> "Applications & Sensing",
     keywords |-> <<
            "vision", "camera", "dvs", "event-based", "sensor",
            "tactile", "skin", "robot", "recognition",
            "classification", "detection", "tracking", "audio",
            "speech", "gesture", "uav", "drone" >>]
  >>

\* the keys of CATEGORIES in dict (insertion) order: `for cat in CATEGORIES`
CategoryKeys == [i \in 1..Len(CATEGORIES) |-> CATEGORIES[i].name]

\* CATEGORIES[cat]
KeywordsOf(cat) ==
  LET i == CHOOSE j \in 1..Len(CATEGORIES) : CATEGORIES[j].name = cat
  IN  CATEGORIES[i].keywords

\* the literal of lines 49 and 70
Uncategorized == "General / Uncategorized"

\* a display order with one name out of step with the key of CATEGORIES
display_order_Desync ==
  << "Hardware & Materials", "Algorithms & Theory",
     "Applications and Sensing", "General / Uncategorized" >>

\* a display order that starts with the fallback category
display_order_FallbackFirst ==
  << "General / Uncategorized", "Hardware & Materials",
     "Algorithms & Theory", "Applications & Sensing" >>

\* the literal of line 93
display_order ==
  << "Hardware & Materials", "Algorithms & Theory",
     "Applications & Sensing", "General / Uncategorized" >>

---------------------------------------------------------------------------
(* Python string operations *)

Range(s) == {s[i] : i \in 1..Len(s)}

Char(s, i) == SubSeq(s, i, i)

UpperLetters == "ABCDEFGHIJKLMNOPQRSTUVWXYZ"
LowerLetters == "abcdefghijklmnopqrstuvwxyz"

\* the lowercase letter of each uppercase ASCII letter
LowerOf ==
  [c \in {Char(UpperLetters, i) : i \in 1..Len(UpperLetters)} |->
     Char(LowerLetters, CHOOSE i \in 1..Len(UpperLetters) : Char(UpperLetters, i) = c)]

\* str.lower() on one character (ASCII)
LowerChar(c) == IF c \in DOMAIN LowerOf THEN LowerOf[c] ELSE c

\* a lower() that leaves the text as it is (case-sensitive matching)
lower_Identity(s) == s

RECURSIVE LowerFrom(_, _)
LowerFrom(s, i) ==
  IF i > Len(s) THEN "" ELSE LowerChar(Char(s, i)) \o LowerFrom(s, i + 1)

\* str.lower(), keeps every character in place and maps A-Z to a-z
lower(s) == LowerFrom(s, 1)

\* `kw in s`: kw occurs in s as a run of consecutive characters
Contains(kw, s) ==
  \E i \in 1..(Len(s) - Len(kw) + 1) : SubSeq(s, i, i + Len(kw) - 1) = kw

---------------------------------------------------------------------------
(* classify_paper, lines 34-50 *)

\* line 36
ClassifyText(t, s) == lower(t \o " " \o s)

\* lines 40-42 for one category: each keyword found adds 1
RECURSIVE CountKeywords(_, _, _, _)
CountKeywords(keywords, txt, k, acc) ==
  IF k > Len(keywords) THEN acc
  ELSE CountKeywords(keywords, txt, k + 1,
                     IF Contains(keywords[k], txt) THEN acc + 1 ELSE acc)

\* lines 37-42: the scores dict, one entry per key of CATEGORIES
ComputeScores(txt) ==
  [cat \in Range(CategoryKeys) |-> CountKeywords(KeywordsOf(cat), txt, 1, 0)]

\* a max that lets a later key replace the best on an equal score
RECURSIVE MaxFrom_LastWins(_, _, _, _)
MaxFrom_LastWins(keys, sc, k, best) ==
  IF k > Len(keys) THEN best
  ELSE MaxFrom_LastWins(keys, sc, k + 1,
                        IF sc[keys[k]] >= sc[best] THEN keys[k] ELSE best)

\* max(scores, key=scores.get): walks the keys in dict order and keeps the
\* current best unless a later key is strictly greater
RECURSIVE MaxFrom(_, _, _, _)
MaxFrom(keys, sc, k, best) ==
  IF k > Len(keys) THEN best
  ELSE MaxFrom(keys, sc, k + 1, IF sc[keys[k]] > sc[best] THEN keys[k] ELSE best)

MaxKey(sc) == MaxFrom(CategoryKeys, sc, 2, CategoryKeys[1])

\* a result without the score-0 test of line 48
ClassifyResult_NoFallback(sc, best) == best

\* a result whose fallback name is not the key made at line 70
ClassifyResult_OtherName(sc, best) ==
  IF sc[best] = 0 THEN "Uncategorized" ELSE best

\* lines 48-50
ClassifyResult(sc, best) == IF sc[best] = 0 THEN Uncategorized ELSE best

classify_paper(t, s) ==
  LET sc == ComputeScores(ClassifyText(t, s))
  IN  ClassifyResult(sc, MaxKey(sc))

\* lines 69-70: one empty list per key of CATEGORIES, and one for the fallback
NewPaperGroups ==
  [cat \in Range(CategoryKeys) \cup {Uncategorized} |-> << >>]

---------------------------------------------------------------------------
(* Helpers of main's renderer *)

Digit(d) == Char("0123456789", d + 1)

\* strftime's zero-padded fields: %m, %d, %H, %M and %Y
Pad2(n) == Digit((n \div 10) % 10) \o Digit(n % 10)
Pad4(n) == Pad2(n \div 100) \o Pad2(n % 100)

\* strftime('%Y-%m-%d'), line 104
FormatDate(d) == Pad4(d.year) \o "-" \o Pad2(d.month) \o "-" \o Pad2(d.day)

\* strftime('%Y-%m-%d %H:%M UTC'), line 80
FormatTime(t) ==
  FormatDate(t) \o " " \o Pad2(t.hour) \o ":" \o Pad2(t.minute) \o " UTC"

\* characters str.strip() removes (those a TLA+ string can hold)
Whitespace == {" ", "\n", "\t", "\r", "\f"}

RECURSIVE ReplaceNewlines(_, _)
ReplaceNewlines(s, i) ==
  IF i > Len(s) THEN ""
  ELSE (IF Char(s, i) = "\n" THEN " " ELSE Char(s, i)) \o ReplaceNewlines(s, i + 1)

\* str.strip(): drop the whitespace before the first and after the last
\* character that is not whitespace
Strip(s) ==
  LET keep == {i \in 1..Len(s) : Char(s, i) \notin Whitespace}
  IN  IF keep = {} THEN ""
      ELSE SubSeq(s, CHOOSE i \in keep : \A j \in keep : i <= j,
                     CHOOSE i \in keep : \A j \in keep : i >= j)

\* clean_text, lines 30-32
clean_text(s) == Strip(ReplaceNewlines(s, 1))

\* sep.join(xs)
RECURSIVE Join(_, _)
Join(sep, xs) ==
  IF Len(xs) = 0 THEN ""
  ELSE IF Len(xs) = 1 THEN xs[1]
  ELSE xs[1] \o sep \o Join(sep, Tail(xs))

\* an author summary that truncates from 3 authors on
AuthorStr_FromThree(as) ==
  IF Len(as) >= 3 THEN Join(", ", SubSeq(as, 1, 3)) \o " et al."
  ELSE Join(", ", as)

\* lines 106-109; authors[:3] is the first three names
AuthorStr(as) ==
  IF Len(as) > 3 THEN Join(", ", SubSeq(as, 1, 3)) \o " et al."
  ELSE Join(", ", as)

\* paper_groups.get(category, []), line 96
GroupGet(groups, category) ==
  IF category \in DOMAIN groups THEN groups[category] ELSE << >>

\* lines 82-84
Header(formatted_time) ==
  << "# Open Neuromorphic - Daily ArXiv\n\n",
     "**Automated Daily Update** | Last Run: " \o formatted_time \o "\n\n",
     "Papers are automatically categorized by topic and sorted by date.\n\n" >>

\* an empty-result branch that adds nothing
Notice_Missing == << >>

\* lines 88-89
Notice ==
  << "### No new papers found today.\n", "Check back tomorrow!" >>

\* line 101
Heading(category) == "## " \o category \o "\n\n"

\* lines 113-115 for paper p
Entry(p, pub_date, a_str, summ) ==
  << "### [" \o p.title \o "](" \o p.entry_id \o ")\n",
     "**" \o pub_date \o "** | *" \o a_str \o "*\n\n",
     "> " \o summ \o "\n\n" >>

\* line 117
Separator == "---\n\n"

\* md_content as the one string the pieces add up to
RECURSIVE Concat(_)
Concat(pieces) ==
  IF Len(pieces) = 0 THEN "" ELSE pieces[1] \o Concat(Tail(pieces))

---------------------------------------------------------------------------
(* Values of the variables a specification does not use *)

NoScores == [cat \in Range(CategoryKeys) |-> 0]

MainOff ==
  /\ pc = "off"
  /\ results = << >>
  /\ paper_groups = << >>
  /\ idx = 0
  /\ md_content = << >>
  /\ cat_i = 0
  /\ p_i = 0
  /\ README = ""
  /\ search = "pending"

AuthorsOff ==
  /\ authors = << >>
  /\ author_str = ""

ClassifyOff ==
  /\ cpc = "off"
  /\ title = ""
  /\ summary = ""
  /\ text = ""
  /\ scores = NoScores
  /\ best_cat = ""
  /\ ret = ""

---------------------------------------------------------------------------
(* The run of main, lines 52-123 *)

\* what the search can return in the model
PaperTitles == { "Pcm chip", "SNNcore paper", "A DVS camera", "Quantum\n foam" }
PaperSummaries == { "", " a\nrobot " }
\* identifier, submission date and authors of the papers
PaperEntries ==
  { [entry_id |-> "http://arxiv.org/abs/2401.00002v1",
     published |-> [year |-> 2024, month |-> 1, day |-> 2],
     authors |-> <<"A", "B">>],
    [entry_id |-> "http://arxiv.org/abs/2312.00001v1",
     published |-> [year |-> 2023, month |-> 12, day |-> 31],
     authors |-> <<"A", "B", "C", "D">>] }

Papers ==
  { [title |-> t, summary |-> s, authors |-> e.authors,
     entry_id |-> e.entry_id, published |-> e.published] :
    t \in PaperTitles, s \in PaperSummaries, e \in PaperEntries }

DateKey(d) == d.year * 10000 + d.month * 100 + d.day

\* the search sorts by SubmittedDate, Descending (lines 60-61) and returns
\* at most max_results papers (line 59)
Min(a, b) == IF a < b THEN a ELSE b

ResultLists ==
  { rs \in UNION {[1..n -> Papers] : n \in 0..Min(MaxPapers, MAX_RESULTS)} :
      \A i \in 1..(Len(rs) - 1) :
        DateKey(rs[i].published) >= DateKey(rs[i + 1].published) }

\* values of datetime.now(timezone.utc), line 79
Clock ==
  { [year |-> 2024, month |-> 1, day |-> 3, hour |-> 6, minute |-> 5],
    [year |-> 2024, month |-> 11, day |-> 30, hour |-> 23, minute |-> 59] }

\* README.md as the run finds it
OldReadme == "# Open Neuromorphic - Daily ArXiv\n\nyesterday\n"

Init ==
  /\ pc = "start"
  /\ results = << >>
  /\ paper_groups = << >>
  /\ idx = 0
  /\ md_content = << >>
  /\ cat_i = 0
  /\ p_i = 0
  /\ README = OldReadme
  /\ search = "pending"
  /\ AuthorsOff
  /\ ClassifyOff

\* lines 56-70: the search returns, and the empty buckets are made
Search ==
  /\ pc = "start"
  /\ search' = "returned"
  /\ results' \in ResultLists
  /\ paper_groups' = NewPaperGroups
  /\ idx' = 1
  /\ pc' = "group"
  /\ UNCHANGED <<md_content, cat_i, p_i, README, authorVars, classifyVars>>

\* a handler that swallows the exception and goes on with no papers
SearchFails_Swallowed ==
  /\ pc = "start"
  /\ search' = "raised"
  /\ results' = << >>
  /\ paper_groups' = NewPaperGroups
  /\ idx' = 1
  /\ pc' = "group"
  /\ UNCHANGED <<md_content, cat_i, p_i, README, authorVars, classifyVars>>

\* line 64 raises: nothing in main catches it
SearchFails ==
  /\ pc = "start"
  /\ search' = "raised"
  /\ pc' = "aborted"
  /\ UNCHANGED <<results, paper_groups, idx, md_content, cat_i, p_i, README,
                 authorVars, classifyVars>>

\* an append at the front of the bucket
AddToGroup_Prepend(groups, cat, p) ==
  [groups EXCEPT ![cat] = <<p>> \o @]

\* line 74
AddToGroup(groups, cat, p) == [groups EXCEPT ![cat] = Append(@, p)]

\* lines 72-76, one iteration; a cat that is no key raises KeyError
GroupPaper ==
  /\ pc = "group"
  /\ idx <= Len(results)
  /\ LET cat == classify_paper(results[idx].title, results[idx].summary)
     IN  IF cat \in DOMAIN paper_groups
         THEN /\ paper_groups' = AddToGroup(paper_groups, cat, results[idx])
              /\ idx' = idx + 1
              /\ pc' = "group"
         ELSE /\ pc' = "aborted"
              /\ UNCHANGED <<paper_groups, idx>>
  /\ UNCHANGED <<results, md_content, cat_i, p_i, README, search, authorVars,
                 classifyVars>>

\* lines 79-90, after the grouping loop
BeginMarkdown ==
  /\ pc = "group"
  /\ idx > Len(results)
  /\ \E utc_now \in Clock :
       IF Len(results) = 0
       THEN /\ md_content' = Header(FormatTime(utc_now)) \o Notice
            /\ pc' = "write"
            /\ cat_i' = cat_i
       ELSE /\ md_content' = Header(FormatTime(utc_now))
            /\ pc' = "render"
            /\ cat_i' = 1
  /\ UNCHANGED <<results, paper_groups, idx, p_i, README, search, authorVars,
                 classifyVars>>

\* lines 95-101, one category of display_order
RenderCategory ==
  /\ pc = "render"
  /\ cat_i <= Len(display_order)
  /\ LET category == display_order[cat_i]
         papers == GroupGet(paper_groups, category)
     IN  IF Len(papers) = 0
         THEN /\ cat_i' = cat_i + 1
              /\ UNCHANGED <<md_content, p_i, pc>>
         ELSE /\ md_content' = Append(md_content, Heading(category))
              /\ p_i' = 1
              /\ pc' = "paper"
              /\ cat_i' = cat_i
  /\ UNCHANGED <<results, paper_groups, idx, README, search, authorVars,
                 classifyVars>>

\* lines 103-115, one paper of the category
RenderPaper ==
  /\ pc = "paper"
  /\ LET papers == GroupGet(paper_groups, display_order[cat_i])
     IN  /\ p_i <= Len(papers)
         /\ authors' = papers[p_i].authors
         /\ author_str' = AuthorStr(authors')
         /\ md_content' = md_content \o
              Entry(papers[p_i], FormatDate(papers[p_i].published),
                    author_str', clean_text(papers[p_i].summary))
         /\ p_i' = p_i + 1
  /\ UNCHANGED <<pc, results, paper_groups, idx, cat_i, README, search,
                 classifyVars>>

\* line 117, after the last paper of the category
EndCategory ==
  /\ pc = "paper"
  /\ p_i > Len(GroupGet(paper_groups, display_order[cat_i]))
  /\ md_content' = Append(md_content, Separator)
  /\ cat_i' = cat_i + 1
  /\ pc' = "render"
  /\ UNCHANGED <<results, paper_groups, idx, p_i, README, search, authorVars,
                 classifyVars>>

\* lines 119-123: README.md is overwritten with md_content
WriteReadme ==
  /\ \/ pc = "write"
     \/ pc = "render" /\ cat_i > Len(display_order)
  /\ README' = Concat(md_content)
  /\ pc' = "done"
  /\ UNCHANGED <<results, paper_groups, idx, md_content, cat_i, p_i, search,
                 authorVars, classifyVars>>

Next ==
  \/ Search
  \/ SearchFails
  \/ GroupPaper
  \/ BeginMarkdown
  \/ RenderCategory
  \/ RenderPaper
  \/ EndCategory
  \/ WriteReadme

Spec == Init /\ [][Next]_vars

---------------------------------------------------------------------------
(* Stand-alone calls of classify_paper *)

\* fragments the titles of the stand-alone calls are made of
Chunks ==
  { "SNN", "core paper", "pcm", "os", "dvs", "Chip", "stdp ", "x",
    "synaptic", "uav" }

RECURSIVE TitlesUpTo(_)
TitlesUpTo(n) ==
  IF n = 0 THEN {""}
  ELSE TitlesUpTo(n - 1) \cup {t \o c : t \in TitlesUpTo(n - 1), c \in Chunks}

Summaries == { "", "device", "snn dvs", "Memristor\ncrossbar" }

InitClassify ==
  /\ MainOff
  /\ AuthorsOff
  /\ cpc = "call"
  /\ title \in TitlesUpTo(MaxChunks)
  /\ summary \in Summaries
  /\ text = ""
  /\ scores = NoScores
  /\ best_cat = ""
  /\ ret = ""

\* lines 36-42
ClassifyScore ==
  /\ cpc = "call"
  /\ text' = ClassifyText(title, summary)
  /\ scores' = ComputeScores(text')
  /\ cpc' = "scored"
  /\ UNCHANGED <<title, summary, best_cat, ret, mainVars, authorVars>>

\* line 45
ClassifyMax ==
  /\ cpc = "scored"
  /\ best_cat' = MaxKey(scores)
  /\ cpc' = "max"
  /\ UNCHANGED <<title, summary, text, scores, ret, mainVars, authorVars>>

\* lines 48-50
ClassifyReturn ==
  /\ cpc = "max"
  /\ ret' = ClassifyResult(scores, best_cat)
  /\ cpc' = "returned"
  /\ UNCHANGED <<title, summary, text, scores, best_cat, mainVars, authorVars>>

NextClassify == ClassifyScore \/ ClassifyMax \/ ClassifyReturn

SpecClassify == InitClassify /\ [][NextClassify]_vars

---------------------------------------------------------------------------
(* Stand-alone evaluations of the author summary, lines 105-109 *)

AuthorNames == { "A", "B", "C", "D" }

AuthorLists == UNION {[1..n -> AuthorNames] : n \in 0..MaxAuthors}

InitAuthors ==
  /\ pc = "authors"
  /\ results = << >>
  /\ paper_groups = << >>
  /\ idx = 0
  /\ md_content = << >>
  /\ cat_i = 0
  /\ p_i = 0
  /\ README = ""
  /\ search = "pending"
  /\ authors \in AuthorLists
  /\ author_str = ""
  /\ ClassifyOff

\* lines 106-109
SummariseAuthors ==
  /\ pc = "authors"
  /\ author_str' = AuthorStr(authors)
  /\ pc' = "authors_done"
  /\ UNCHANGED <<results, paper_groups, idx, md_content, cat_i, p_i, README,
                 search, authors, classifyVars>>

NextAuthors == SummariseAuthors

SpecAuthors == InitAuthors /\ [][NextAuthors]_vars

---------------------------------------------------------------------------
(* Properties of classify_paper *)

\* the text classify_paper searches, before lowercasing
RawText == title \o " " \o summary

AllKeywords ==
  UNION {Range(CATEGORIES[i].keywords) : i \in 1..Len(CATEGORIES)}

\* a and b are the same character up to the case of an ASCII letter
CasePairs ==
  UNION {{<<Char(UpperLetters, i), Char(LowerLetters, i)>>,
          <<Char(LowerLetters, i), Char(UpperLetters, i)>>} :
         i \in 1..Len(UpperLetters)}

SameLetter(a, b) == a = b \/ <<a, b>> \in CasePairs

\* kw occurs somewhere in s, letter case ignored, at any position
OccursIgnoringCase(kw, s) ==
  \E i \in 1..(Len(s) - Len(kw) + 1) :
    \A j \in 1..Len(kw) : SameLetter(Char(s, i + j - 1), Char(kw, j))

HitsOf(i) ==
  {k \in 1..Len(CATEGORIES[i].keywords) :
     OccursIgnoringCase(CATEGORIES[i].keywords[k], RawText)}

\* C1: classify_paper returns one name, which is a key of CATEGORIES or the
\* fallback name, and so a key of the paper_groups dict main builds.
C1_TotalClassification ==
  cpc = "returned" =>
    /\ ret \in Range(CategoryKeys) \cup {Uncategorized}
    /\ ret \in DOMAIN NewPaperGroups

C1_Witness ==
  /\ cpc = "returned"
  /\ title = ""
  /\ summary = ""
  /\ ret = Uncategorized

\* C2: when the text contains no keyword of any category, classify_paper
\* returns the fallback name, whichever category max() picked at score 0.
C2_Fallback ==
  (cpc = "returned" /\ \A kw \in AllKeywords : ~OccursIgnoringCase(kw, RawText))
    => ret = Uncategorized

C2_Witness ==
  /\ cpc = "returned"
  /\ title = "xcore paper"
  /\ \A kw \in AllKeywords : ~OccursIgnoringCase(kw, RawText)
  /\ best_cat \in Range(CategoryKeys)
  /\ ret = Uncategorized

\* C3: when the greatest score is at least 1, the category returned is the
\* first one, in the order Hardware, Algorithms, Applications, that has the
\* greatest score; a later category wins only with a score strictly greater
\* than that of every category before it.
C3_TieBreak ==
  /\ CategoryKeys = << "Hardware & Materials", "Algorithms & Theory",
                       "Applications & Sensing" >>
  /\ (cpc = "returned" /\ \E c \in DOMAIN scores : scores[c] >= 1) =>
       \E i \in 1..Len(CategoryKeys) :
         /\ ret = CategoryKeys[i]
         /\ \A j \in 1..Len(CategoryKeys) : scores[CategoryKeys[j]] <= scores[ret]
         /\ \A j \in 1..(i - 1) : scores[CategoryKeys[j]] < scores[ret]

C3_Witness ==
  /\ cpc = "returned"
  /\ scores["Hardware & Materials"] = 0
  /\ scores["Algorithms & Theory"] = 1
  /\ scores["Applications & Sensing"] = 1
  /\ ret = "Algorithms & Theory"

\* C4: the score of a category is the number of its keywords that occur at
\* least once in title + " " + summary, letter case ignored and without
\* regard to word boundaries; "SNNcore paper" with an empty summary scores 1
\* for Algorithms & Theory and is classified there.
C4_Score ==
  /\ cpc = "scored" =>
       \A i \in 1..Len(CATEGORIES) :
         scores[CATEGORIES[i].name] = Cardinality(HitsOf(i))
  /\ (cpc = "returned" /\ title = "SNNcore paper" /\ summary = "") =>
       /\ scores["Algorithms & Theory"] = 1
       /\ ret = "Algorithms & Theory"

C4_Witness ==
  /\ cpc = "returned"
  /\ title = "SNNcore paper"
  /\ summary = ""
  /\ ret = "Algorithms & Theory"

\* a keyword that occurs twice in the text counts once
C4_WitnessRepeat ==
  /\ cpc = "returned"
  /\ title = "SNNSNN"
  /\ summary = "snn dvs"
  /\ scores["Algorithms & Theory"] = 1

---------------------------------------------------------------------------
(* Properties of the author summary *)

\* the first k names of authors, each after the first preceded by ", "
RECURSIVE Listed(_)
Listed(k) ==
  IF k = 0 THEN ""
  ELSE Listed(k - 1) \o (IF k > 1 THEN ", " ELSE "") \o authors[k]

\* C9: the author summary is the first 3 names joined with ", " and then
\* " et al." when there are more than 3 authors, and all names joined with
\* ", " otherwise: exactly 3 authors are all listed, no author gives "".
C9_AuthorSummary ==
  pc = "authors_done" =>
    /\ Len(authors) > 3 => author_str = Listed(3) \o " et al."
    /\ Len(authors) <= 3 => author_str = Listed(Len(authors))
    /\ authors = <<"A", "B", "C", "D">> => author_str = "A, B, C et al."
    /\ authors = <<"A", "B", "C">> => author_str = "A, B, C"
    /\ authors = <<"A", "B">> => author_str = "A, B"
    /\ authors = << >> => author_str = ""

C9_Witness ==
  /\ pc = "authors_done"
  /\ authors = <<"A", "B", "C", "D">>
  /\ author_str = "A, B, C et al."

---------------------------------------------------------------------------
(* Properties of the run of main *)

\* the order of the sections of the document
SectionOrder ==
  << "Hardware & Materials", "Algorithms & Theory",
     "Applications & Sensing", "General / Uncategorized" >>

\* the category of each paper the search can return
ClassTable == [p \in Papers |-> classify_paper(p.title, p.summary)]

ClassOf(p) == ClassTable[p]

\* the papers of rs that classify_paper assigns to cat, in the order of rs
InCategory(rs, cat) ==
  LET Is(p) == ClassOf(p) = cat
  IN  SelectSeq(rs, Is)

\* the part of results the grouping loop has gone through
Processed == SubSeq(results, 1, idx - 1)

RECURSIVE SumOfSizes(_, _)
SumOfSizes(groups, cats) ==
  IF cats = {} THEN 0
  ELSE LET c == CHOOSE x \in cats : TRUE
       IN  Len(groups[c]) + SumOfSizes(groups, cats \ {c})

\* how often x occurs in the sequence xs
Occurrences(xs, x) == Cardinality({i \in 1..Len(xs) : xs[i] = x})

LoopOver == pc \in {"render", "paper", "write", "done"}

\* C5: once the grouping loop is over, each bucket holds the papers of the
\* input that classify_paper assigns to it, in input order: every occurrence
\* of a paper is in exactly one bucket, nothing else is in a bucket, and the
\* sizes of the buckets add up to the length of the input.  It holds of the
\* papers gone through so far at every iteration of the loop.
C5_Grouping ==
  (search = "returned" /\ pc # "aborted") =>
    /\ LoopOver => idx = Len(results) + 1
    /\ \A cat \in DOMAIN paper_groups :
         paper_groups[cat] = InCategory(Processed, cat)
    /\ SumOfSizes(paper_groups, DOMAIN paper_groups) = Len(Processed)
    /\ \A p \in Papers :
         /\ Occurrences(paper_groups[ClassOf(p)], p) = Occurrences(Processed, p)
         /\ \A cat \in DOMAIN paper_groups \ {ClassOf(p)} :
              Occurrences(paper_groups[cat], p) = 0

\* two different papers in one bucket, in input order
C5_Witness ==
  /\ pc = "done"
  /\ Len(results) = 2
  /\ results[1] # results[2]
  /\ paper_groups["Algorithms & Theory"] = results

\* the same paper twice in the input
C5_WitnessTwice ==
  /\ pc = "done"
  /\ Len(results) = 2
  /\ results[1] = results[2]
  /\ paper_groups["General / Uncategorized"] = results

StartsWith(s, i, pre) ==
  /\ i + Len(pre) - 1 <= Len(s)
  /\ SubSeq(s, i, i + Len(pre) - 1) = pre

\* the positions of s where a line starts
LineStarts(s) == {i \in 1..Len(s) : i = 1 \/ Char(s, i - 1) = "\n"}

\* the line of s that starts at position i, without its newline
LineAt(s, i) ==
  LET stops == {j \in i..Len(s) : Char(s, j) = "\n"}
      stop == IF stops = {} THEN Len(s) + 1
              ELSE CHOOSE j \in stops : \A k \in stops : j <= k
  IN  SubSeq(s, i, stop - 1)

RECURSIVE Ascending(_)
Ascending(S) ==
  IF S = {} THEN << >>
  ELSE LET m == CHOOSE x \in S : \A y \in S : x <= y
       IN  <<m>> \o Ascending(S \ {m})

\* the lines of s that start with pre, in the order of the document
LinesWith(s, pre) ==
  LET at == Ascending({i \in LineStarts(s) : StartsWith(s, i, pre)})
  IN  [k \in 1..Len(at) |-> LineAt(s, at[k])]

\* the categories with a paper in their bucket, in the order of the sections
NonEmptySections ==
  LET Has(c) == paper_groups[c] # << >>
  IN  SelectSeq(SectionOrder, Has)

\* C6: with a result list that is not empty, the document has a "## name"
\* heading for exactly the categories with a paper, each once, in the order
\* Hardware, Algorithms, Applications, General; a category without a paper
\* adds no heading and no separator.
C6_Headings ==
  (pc = "done" /\ Len(results) > 0) =>
    /\ LinesWith(README, "## ") =
         [k \in 1..Len(NonEmptySections) |-> "## " \o NonEmptySections[k]]
    /\ Len(LinesWith(README, "---")) = Len(NonEmptySections)

C6_Witness ==
  /\ pc = "done"
  /\ NonEmptySections = << "Algorithms & Theory", "General / Uncategorized" >>
  /\ ClassOf(results[1]) = "General / Uncategorized"

\* the document of a run without papers
EmptyDocument(formatted_time) ==
  "# Open Neuromorphic - Daily ArXiv\n\n"
  \o "**Automated Daily Update** | Last Run: " \o formatted_time \o "\n\n"
  \o "Papers are automatically categorized by topic and sorted by date.\n\n"
  \o "### No new papers found today.\n"
  \o "Check back tomorrow!"

\* C7: when the search returns no paper, the document is the header lines
\* and then the notice, with no section heading, no paper and no separator;
\* the run goes on to write it and ends.
C7_EmptyInput ==
  (search = "returned" /\ Len(results) = 0) =>
    /\ pc # "aborted"
    /\ pc # "done" => ENABLED Next
    /\ pc = "done" =>
         /\ README \in { EmptyDocument("2024-01-03 06:05 UTC"),
                         EmptyDocument("2024-11-30 23:59 UTC") }
         /\ LinesWith(README, "## ") = << >>
         /\ LinesWith(README, "### [") = << >>
         /\ LinesWith(README, "---") = << >>

C7_Witness ==
  /\ pc = "done"
  /\ search = "returned"
  /\ Len(results) = 0
  /\ README # OldReadme

TitlePiece(p) == "### [" \o p.title \o "](" \o p.entry_id \o ")\n"

IsTitlePiece(x) == StartsWith(x, 1, "### [")

IsHeadingPiece(x) == StartsWith(x, 1, "## ")

\* C8: when the search raises, the run ends there and README.md keeps its
\* content; README.md is written only by a run whose search returned and
\* that classified and rendered every paper.
C8_NoPartialWrite ==
  /\ search = "raised" =>
       /\ pc = "aborted"
       /\ README = OldReadme
       /\ ~ENABLED Next
  /\ README # OldReadme =>
       /\ search = "returned"
       /\ pc = "done"
       /\ idx = Len(results) + 1
       /\ SumOfSizes(paper_groups, DOMAIN paper_groups) = Len(results)
       /\ Len(SelectSeq(md_content, IsTitlePiece)) = Len(results)
       /\ README = Concat(md_content)

C8_Witness ==
  /\ search = "raised"
  /\ pc = "aborted"
  /\ README = OldReadme

\* the headings and the linked titles of the document, in order
Skeleton ==
  LET Keep(x) == IsHeadingPiece(x) \/ IsTitlePiece(x)
  IN  SelectSeq(md_content, Keep)

\* the section of category c for the input rs: nothing without a paper
SectionOf(rs, c) ==
  LET ps == InCategory(rs, c)
  IN  IF Len(ps) = 0 THEN << >>
      ELSE <<Heading(c)>> \o [i \in 1..Len(ps) |-> TitlePiece(ps[i])]

RECURSIVE SectionsFrom(_, _)
SectionsFrom(rs, k) ==
  IF k > Len(SectionOrder) THEN << >>
  ELSE SectionOf(rs, SectionOrder[k]) \o SectionsFrom(rs, k + 1)

\* C10: the display order has no duplicate and holds exactly the keys of
\* paper_groups, so with a result list that is not empty every paper is
\* rendered once, under the heading of the category classify_paper gives it,
\* and the papers of a section are in input order.
C10_EveryPaperRendered ==
  /\ \A i, j \in 1..Len(display_order) :
       display_order[i] = display_order[j] => i = j
  /\ Range(display_order) = Range(CategoryKeys) \cup {Uncategorized}
  /\ (search = "returned" /\ pc # "aborted") =>
       Range(display_order) = DOMAIN paper_groups
  /\ (pc = "done" /\ Len(results) > 0) =>
       /\ Skeleton = SectionsFrom(results, 1)
       /\ Len(md_content) =
            3 + 3 * Len(results) + 2 * Len(NonEmptySections)
       /\ README = Concat(md_content)

\* the first paper of the input is rendered after the second
C10_Witness ==
  /\ pc = "done"
  /\ Len(results) = 2
  /\ ClassOf(results[1]) = "Applications & Sensing"
  /\ ClassOf(results[2]) = "Hardware & Materials"
  /\ Skeleton = << Heading("Hardware & Materials"), TitlePiece(results[2]),
                   Heading("Applications & Sensing"), TitlePiece(results[1]) >>

===========================================================================
